---- MODULE Spec2Model ----
(***************************************************************************)
(* Model of muforge/game/routers/api_game.py: the in-memory game session   *)
(* (player, combat, unclaimed loot, message log) and the handlers that     *)
(* mutate it.  One session is modelled; every handler is one atomic step   *)
(* (the handlers are coroutines without an await inside).                  *)
(*                                                                         *)
(* Python dicts are functions on their keys, so that dict.get(key, dflt)   *)
(* is Get(d, key, dflt); None is the empty function.  Lists are sequences. *)
(*                                                                         *)
(* session is the entry of the sessions dict, response what the last       *)
(* handler returned, and inflight the attack requests that the event loop  *)
(* has accepted, each with the locals of its coroutine.                    *)
(***************************************************************************)
EXTENDS Integers, Sequences, FiniteSets, TLC

VARIABLES session, response, inflight

vars == <<session, response, inflight>>

\* ------------------------------------------------------------------ bounds
\* Spec and SpecCombat explore the sessions that hold at most MaxCredits
\* credits, MaxUnits units in the inventory (all stacks together) and
\* MaxUnlocked unlocked locations.
MaxCredits == 50
MaxUnits == 2
MaxUnlocked == 1
\* SpecInv explores the sessions that hold at most MaxPurse credits and
\* MaxStacks stacks of at most MaxQty units each.
MaxPurse == 25
MaxStacks == 7
MaxQty == 2
\* SpecStack explores inventories of at most MaxTotal units.
MaxTotal == 200
\* SpecAttack explores the rosters whose enemies hold at most MaxEnemyHealth
\* health (a strike of negative power raises it), with a player at most
\* MaxWounds health away from 0 or from max_health.
MaxEnemyHealth == 62
MaxWounds == 15
\* SpecPlasma explores the sessions that hold at most MaxFunds credits,
\* MaxCargo units in the inventory and MaxMessages messages.
MaxFunds == 115
MaxCargo == 3
MaxMessages == 2

\* --------------------------------------------------------------- constants
SCRAP_STACK_SIZE == 64
MAX_INVENTORY_SLOTS == 6

None == <<>>

PRICES ==
  [n \in {"Medpack", "Nano Repair Kit", "Energy Cell", "Charge Cell", "Armor",
          "Energy Shield", "Weapon", "Blaster", "Plasma Blaster"} |->
     CASE n = "Medpack" -> 25
       [] n = "Nano Repair Kit" -> 50
       [] n = "Energy Cell" -> 10
       [] n = "Charge Cell" -> 5
       [] n = "Armor" -> 80
       [] n = "Energy Shield" -> 100
       [] n = "Weapon" -> 60
       [] n = "Blaster" -> 90
       [] n = "Plasma Blaster" -> 90]

unlock_costs == [l \in {"delta_base", "node.delta.base"} |-> 50]

loot_table ==
  << <<"Scrap", 1>>, <<"Iron Scrap", 1>>, <<"Energy Cell", 1>>,
     <<"Nano Repair Kit", 1>>, <<"Medpack", 1>> >>

\* ----------------------------------------------------------------- helpers
Min(a, b) == IF a <= b THEN a ELSE b
Max(a, b) == IF a >= b THEN a ELSE b

\* dict.get(key, default)
Get(d, key, default) == IF key \in DOMAIN d THEN d[key] ELSE default

\* d[key] = value on a dict (adds the key when absent)
Put(d, key, value) ==
  IF key \in DOMAIN d
  THEN [d EXCEPT ![key] = value]
  ELSE [k \in DOMAIN d \cup {key} |-> IF k = key THEN value ELSE d[k]]

\* item.get("qty", item.get("count", 0)) or 0
ItemQty(item) == Get(item, "qty", Get(item, "count", 0))

\* [i for i in inventory if i.get("name") != name]
Without(inventory, name) ==
  SelectSeq(inventory, LAMBDA i : Get(i, "name", None) # name)

RECURSIVE SumSeq(_)
SumSeq(s) == IF s = <<>> THEN 0 ELSE Head(s) + SumSeq(Tail(s))

\* sum(qty of i for i in inventory if i.get("name") == name)
TotalOf(inventory, name) ==
  LET RECURSIVE Go(_)
      Go(i) == IF i > Len(inventory) THEN 0
               ELSE (IF Get(inventory[i], "name", None) = name
                     THEN ItemQty(inventory[i]) ELSE 0) + Go(i + 1)
  IN Go(1)

\* int(x * 0.40) for an integer x: truncation toward zero of 2x/5
Int040(x) == IF x >= 0 THEN (2 * x) \div 5 ELSE -((2 * (-x)) \div 5)

\* --------------------------------------------------------- add_stacked_item
\* The for loop of add_stacked_item from position i on: the inventory after
\* it, what is left of qty, and whether the function returned inside the loop.
RECURSIVE FillPartial(_, _, _, _)
FillPartial(inventory, name, qty, i) ==
  IF i > Len(inventory)
  THEN [inventory |-> inventory, qty |-> qty, returned |-> FALSE]
  ELSE LET item == inventory[i]
           existing_qty == ItemQty(item)
       IN IF Get(item, "name", None) # name
          THEN FillPartial(inventory, name, qty, i + 1)
          ELSE IF existing_qty >= SCRAP_STACK_SIZE
          THEN FillPartial(inventory, name, qty, i + 1)
          ELSE LET space == SCRAP_STACK_SIZE - existing_qty
                   add_now == Min(space, qty)
                   new_qty == existing_qty + add_now
                   inv2 == [inventory EXCEPT
                              ![i] = Put(Put(item, "qty", new_qty), "count", new_qty)]
                   rest == qty - add_now
               IN IF rest <= 0
                  THEN [inventory |-> inv2, qty |-> rest, returned |-> TRUE]
                  ELSE FillPartial(inv2, name, rest, i + 1)

\* NewStacks without the min(SCRAP_STACK_SIZE, qty): one stack takes it all.
NewStacks_NoSplit(inventory, name, qty) ==
  IF qty > 0
  THEN Append(inventory, [name |-> name, qty |-> qty, count |-> qty])
  ELSE inventory

\* The while loop of add_stacked_item: new stacks for what is left.
RECURSIVE NewStacks(_, _, _)
NewStacks(inventory, name, qty) ==
  IF qty > 0
  THEN LET add_now == Min(SCRAP_STACK_SIZE, qty)
       IN NewStacks(Append(inventory,
                           [name |-> name, qty |-> add_now, count |-> add_now]),
                    name, qty - add_now)
  ELSE inventory

add_stacked_item(inventory, name, qty) ==
  LET r == FillPartial(inventory, name, qty, 1)
  IN IF r.returned THEN r.inventory ELSE NewStacks(r.inventory, name, r.qty)

\* ------------------------------------------------------------------- state
player == session.player
inventory == session.player.inventory
credits == session.player.credits

\* session with the player's field f set to v (player[f] = v)
WithPlayer(s, f, v) == [s EXCEPT !.player = Put(s.player, f, v)]

\* start_game: the session it stores
start_game ==
  [player |-> [name |-> "Traveler", health |-> 100, max_health |-> 100,
               xp |-> 0, xp_to_next |-> 50, level |-> 1, credits |-> 0,
               inventory |-> <<>>, plasma_durability |-> 0],
   node |-> [id |-> "terra", name |-> "Terra",
             desc |-> "The home planet. Your journey begins here."],
   combat |-> None,
   unclaimed_loot |-> <<>>]

\* The attack requests the event loop holds at once, and the frame of a
\* request that was not received: pc is the coroutine's position, enemy_id and
\* attack its parameters, target_index its local, popped and rewarded what it
\* removed from the roster and credited, status what it answered.
Reqs == {1, 2}
NoFrame ==
  [pc |-> "none", enemy_id |-> -1, attack |-> 0, target_index |-> 0,
   popped |-> None, rewarded |-> 0, status |-> 0]

\* No request in flight: running is the request whose coroutine holds the
\* event loop (0 when none does), session0 the session when the roster of
\* the requests was built.
Idle == [frames |-> [r \in Reqs |-> NoFrame], running |-> 0, session0 |-> start_game]

Init ==
  /\ session = start_game
  /\ response = [op |-> "start"]
  /\ inflight = Idle

\* ------------------------------------------------------------ get_game_state
\* if "qty" not in item and "count" in item: item["qty"] = item["count"]
Normalized(inv) ==
  [i \in DOMAIN inv |->
     IF "qty" \notin DOMAIN inv[i] /\ "count" \in DOMAIN inv[i]
     THEN Put(inv[i], "qty", inv[i]["count"]) ELSE inv[i]]

get_game_state ==
  /\ session' = WithPlayer(session, "inventory", Normalized(inventory))
  /\ response' = [op |-> "state", combat |-> session.combat,
                  loot |-> Get(session, "unclaimed_loot", <<>>)]

\* --------------------------------------------- run_command (deposit_scrap)
\* deposit_scrap paying the rate of "Scrap" for either scrap type.
deposit_scrap_FlatRate(args) ==
  IF args = <<>> \/ args[1] \notin {"Scrap", "Iron Scrap"}
  THEN /\ response' = [op |-> "command", ok |-> FALSE,
                       msg |-> <<"Invalid scrap type.">>]
       /\ UNCHANGED session
  ELSE LET scrap_type == args[1]
           total == TotalOf(session.player.inventory, scrap_type)
           s1 == [session EXCEPT !.player.inventory =
                    Without(session.player.inventory, scrap_type)]
       IN /\ session' = [s1 EXCEPT !.player.credits = @ + total * 2]
          /\ response' = [op |-> "command", ok |-> TRUE,
                          msg |-> <<"Deposited", total, scrap_type, total * 2>>]

\* args is the request's argument list; scrap_type is None when it is empty.
deposit_scrap(args) ==
  IF args = <<>> \/ args[1] \notin {"Scrap", "Iron Scrap"}
  THEN /\ response' = [op |-> "command", ok |-> FALSE,
                       msg |-> <<"Invalid scrap type.">>]
       /\ UNCHANGED session
  ELSE LET scrap_type == args[1]
           rate == IF scrap_type = "Scrap" THEN 2 ELSE 5
           total == TotalOf(inventory, scrap_type)
           s1 == WithPlayer(session, "inventory", Without(inventory, scrap_type))
       IN /\ session' = WithPlayer(s1, "credits", credits + total * rate)
          /\ response' = [op |-> "command", ok |-> TRUE,
                          msg |-> <<"Deposited", total, scrap_type, total * rate>>]

\* -------------------------------------------------------------- heal_player
\* heal_player without the min(player["max_health"], ...).
heal_player_NoCap ==
  LET amount == 15
  IN /\ session' = [session EXCEPT !.player.health = @ + amount]
     /\ response' = [op |-> "heal", message |-> <<"Healed for", amount>>]

heal_player ==
  LET amount == 15
  IN /\ session' = WithPlayer(session, "health",
                              Min(player.max_health, player.health + amount))
     /\ response' = [op |-> "heal", message |-> <<"Healed for", amount>>]

\* ----------------------------------------------------------------- shop_buy
\* shop_buy without player["plasma_durability"] = 2.
shop_buy_NoCharge(item_name) ==
  IF item_name \notin DOMAIN PRICES
  THEN /\ response' = [op |-> "shop_buy", ok |-> FALSE,
                       msg |-> <<item_name, "cannot be bought here.">>]
       /\ UNCHANGED session
  ELSE IF session.player.credits < PRICES[item_name]
  THEN /\ response' = [op |-> "shop_buy", ok |-> FALSE,
                       msg |-> <<"Not enough credits.">>]
       /\ UNCHANGED session
  ELSE /\ session' = [session EXCEPT
                        !.player.credits = @ - PRICES[item_name],
                        !.player.inventory = Append(@, [name |-> item_name, qty |-> 1])]
       /\ response' = [op |-> "shop_buy", ok |-> TRUE,
                       msg |-> <<"Purchased", item_name, PRICES[item_name]>>]

\* shop_buy without the "credits < cost" check.
shop_buy_NoFundsCheck(item_name) ==
  IF item_name \notin DOMAIN PRICES
  THEN /\ response' = [op |-> "shop_buy", ok |-> FALSE,
                       msg |-> <<item_name, "cannot be bought here.">>]
       /\ UNCHANGED session
  ELSE /\ session' = [session EXCEPT
                        !.player.credits = @ - PRICES[item_name],
                        !.player.inventory = Append(@, [name |-> item_name, qty |-> 1])]
       /\ response' = [op |-> "shop_buy", ok |-> TRUE,
                       msg |-> <<"Purchased", item_name, PRICES[item_name]>>]

\* shop_buy storing the debited balance before it checks the funds.
shop_buy_DebitFirst(item_name) ==
  IF item_name \notin DOMAIN PRICES
  THEN /\ response' = [op |-> "shop_buy", ok |-> FALSE,
                       msg |-> <<item_name, "cannot be bought here.">>]
       /\ UNCHANGED session
  ELSE LET s1 == [session EXCEPT !.player.credits = @ - PRICES[item_name]]
       IN IF s1.player.credits < 0
          THEN /\ session' = s1
               /\ response' = [op |-> "shop_buy", ok |-> FALSE,
                               msg |-> <<"Not enough credits.">>]
          ELSE /\ session' = [s1 EXCEPT !.player.inventory =
                                 Append(@, [name |-> item_name, qty |-> 1])]
               /\ response' = [op |-> "shop_buy", ok |-> TRUE,
                               msg |-> <<"Purchased", item_name, PRICES[item_name]>>]

shop_buy(item_name) ==
  LET name == item_name
  IN IF name \notin DOMAIN PRICES
     THEN /\ response' = [op |-> "shop_buy", ok |-> FALSE,
                          msg |-> <<name, "cannot be bought here.">>]
          /\ UNCHANGED session
     ELSE LET cost == PRICES[name]
              inv == Append(inventory, [name |-> name, qty |-> 1])
              s1 == WithPlayer(session, "credits", Get(player, "credits", 0) - cost)
              s2 == IF name = "Plasma Blaster"
                    THEN WithPlayer(s1, "plasma_durability", 2) ELSE s1
          IN IF Get(player, "credits", 0) < cost
             THEN /\ response' = [op |-> "shop_buy", ok |-> FALSE,
                                  msg |-> <<"Not enough credits.">>]
                  /\ UNCHANGED session
             ELSE /\ session' = WithPlayer(s2, "inventory", inv)
                  /\ response' = [op |-> "shop_buy", ok |-> TRUE,
                                  msg |-> <<"Purchased", name, cost>>]

\* ------------------------------------------------------------------- search
\* The rolls of search from roll k on: draws[k] is the index random.choice
\* takes in loot_table at roll k, and Len(draws) is rolls.
RECURSIVE SearchRolls(_, _, _, _)
SearchRolls(inv, found_items, draws, k) ==
  IF k > Len(draws) \/ Len(inv) >= MAX_INVENTORY_SLOTS
  THEN [inventory |-> inv, found_items |-> found_items]
  ELSE LET name == loot_table[draws[k]][1]
           qty == loot_table[draws[k]][2]
       IN SearchRolls(add_stacked_item(inv, name, qty),
                      Append(found_items, [name |-> name, qty |-> qty]),
                      draws, k + 1)

\* search granting the credit bonus before the "inventory full" check.
search_BonusFirst(draws, credits_gain) ==
  LET s1 == [session EXCEPT !.player.credits = @ + credits_gain]
  IN IF Len(session.player.inventory) >= MAX_INVENTORY_SLOTS
     THEN /\ session' = s1
          /\ response' = [op |-> "search", ok |-> FALSE, items |-> <<>>,
                          credits_gained |-> credits_gain]
     ELSE LET r == SearchRolls(session.player.inventory, <<>>, draws, 1)
          IN /\ session' = [s1 EXCEPT !.player.inventory = r.inventory]
             /\ response' = [op |-> "search", ok |-> TRUE, items |-> r.found_items,
                             credits_gained |-> credits_gain]

\* search with ">" for ">=" in the "inventory full" check.
search_GtSlots(draws, credits_gain) ==
  IF Len(session.player.inventory) > MAX_INVENTORY_SLOTS
  THEN /\ response' = [op |-> "search", ok |-> FALSE, items |-> <<>>,
                       credits_gained |-> 0]
       /\ UNCHANGED session
  ELSE LET r == SearchRolls(session.player.inventory, <<>>, draws, 1)
       IN /\ session' = [session EXCEPT !.player.credits = @ + credits_gain,
                                        !.player.inventory = r.inventory]
          /\ response' = [op |-> "search", ok |-> TRUE, items |-> r.found_items,
                          credits_gained |-> credits_gain]

search(draws, credits_gain) ==
  IF Len(inventory) >= MAX_INVENTORY_SLOTS
  THEN /\ response' = [op |-> "search", ok |-> FALSE, items |-> <<>>,
                       credits_gained |-> 0]
       /\ UNCHANGED session
  ELSE LET r == SearchRolls(inventory, <<>>, draws, 1)
           s1 == WithPlayer(session, "credits",
                            Get(player, "credits", 0) + credits_gain)
       IN /\ session' = WithPlayer(s1, "inventory", r.inventory)
          /\ response' = [op |-> "search", ok |-> TRUE, items |-> r.found_items,
                          credits_gained |-> credits_gain]

\* ---------------------------------------------------------- start_adventure
\* session["messages"].append(m), creating the list when it is absent
AppendMessage(s, m) == Put(s, "messages", Append(Get(s, "messages", <<>>), m))

HasPlasmaBlaster(inv) ==
  \E i \in DOMAIN inv : Get(inv[i], "name", None) = "Plasma Blaster"

\* The "Plasma Blaster durability system" block of start_adventure.
PlasmaRule(s) ==
  IF ~HasPlasmaBlaster(s.player.inventory) THEN s
  ELSE LET s1 == IF Get(s.player, "plasma_durability", 0) = 1
                 THEN AppendMessage(s, "warn: Plasma Blaster will break")
                 ELSE s
       IN IF Get(s1.player, "plasma_durability", 0) > 0
          THEN LET s2 == WithPlayer(s1, "plasma_durability",
                                    s1.player.plasma_durability - 1)
               IN IF s2.player.plasma_durability = 0
                  THEN AppendMessage(
                         WithPlayer(s2, "inventory",
                                    Without(s2.player.inventory, "Plasma Blaster")),
                         "Your Plasma Blaster breaks!")
                  ELSE s2
          ELSE s1

RaiderName(level) == "Raider L" \o ToString(level)

\* Raider giving every enemy the id 0.
Raider_SameId(i, level) ==
  LET max_hp == 40 + level * 10
  IN [id |-> 0, name |-> RaiderName(level), health |-> max_hp,
      max_health |-> max_hp, attack |-> 8 + level * 2, level |-> level,
      credit_reward |-> 10 + level * 5]

\* The enemy start_adventure builds at position i of range(enemy_count).
Raider(i, level) ==
  LET max_hp == 40 + level * 10
  IN [id |-> i, name |-> RaiderName(level), health |-> max_hp,
      max_health |-> max_hp, attack |-> 8 + level * 2, level |-> level,
      credit_reward |-> 10 + level * 5]

\* levels[i+1] is the level drawn for enemy i and Len(levels) is enemy_count;
\* c, sc, ir are the three random.randint draws of the loot.
start_adventure(levels, c, sc, ir) ==
  LET s1 == PlasmaRule(session)
      enemy_count == Len(levels)
      enemies == [k \in 1..enemy_count |-> Raider(k - 1, levels[k])]
      combat == [enemies |-> enemies]
      loot == << [name |-> "Credits", count |-> c],
                 [name |-> "Scrap", count |-> sc],
                 [name |-> "Iron Scrap", count |-> ir] >>
  IN /\ session' = [s1 EXCEPT !.combat = combat, !.unclaimed_loot = loot]
     /\ response' = [op |-> "adventure", enemies |-> enemies, loot |-> loot]

\* ------------------------------------------------------------- attack_enemy
\* Index (from 1) of the first enemy whose id is enemy_id, 0 when none has.
TargetIndex(enemies, enemy_id) ==
  LET hits == {i \in DOMAIN enemies : Get(enemies[i], "id", None) = enemy_id}
  IN IF hits = {} THEN 0 ELSE CHOOSE i \in hits : \A j \in hits : i <= j

\* The roster when the pop of the defeated enemy is left out.
Pop_Keep(seq, index) == seq

\* enemies.pop(index)
Pop(seq, index) == [k \in 1..(Len(seq) - 1) |-> IF k < index THEN seq[k] ELSE seq[k + 1]]

\* attack_enemy ending the combat when the player is defeated.
attack_enemy_ClearsOnDefeat(enemy_id, attack, pick) ==
  LET combat == Get(session, "combat", None)
  IN IF combat = None
     THEN /\ pick = 1
          /\ response' = [op |-> "attack", status |-> 400,
                          detail |-> "No active combat"]
          /\ UNCHANGED session
     ELSE
     LET enemies == combat.enemies
         target_index == TargetIndex(enemies, enemy_id)
     IN IF target_index = 0
        THEN /\ pick = 1
             /\ response' = [op |-> "attack", status |-> 400,
                             detail |-> "Invalid enemy id"]
             /\ UNCHANGED session
        ELSE
        LET dmg == attack
            old == enemies[target_index]
            enemy == [old EXCEPT !.health = Max(0, old.health - dmg)]
            dead == enemy.health <= 0
            credit_reward == Get(enemy, "credit_reward", 0)
            ev1 == << <<"strike", enemy.name, dmg>> >>
            ev2 == IF dead THEN Append(ev1, <<"defeated", enemy.name>>) ELSE ev1
            ev3 == IF dead /\ credit_reward > 0
                   THEN Append(ev2, <<"loot", credit_reward, enemy.name>>) ELSE ev2
            s1 == IF dead /\ credit_reward > 0
                  THEN WithPlayer(session, "credits", credits + credit_reward)
                  ELSE session
            left == IF dead THEN Pop(enemies, target_index)
                    ELSE [enemies EXCEPT ![target_index] = enemy]
            s2 == [s1 EXCEPT !.combat = [enemies |-> left]]
        IN IF left # <<>>
           THEN LET edmg == Max(4, Int040(attack))
                    s3 == WithPlayer(s2, "health", Max(0, s2.player.health - edmg))
                    ev4 == Append(ev3, <<"hits", left[pick].name, edmg>>)
                IN /\ pick \in DOMAIN left
                   /\ session' = IF s3.player.health <= 0
                                 THEN [s3 EXCEPT !.combat = None] ELSE s3
                   /\ response' =
                        IF s3.player.health <= 0
                        THEN [op |-> "attack", events |-> Append(ev4, <<"You were defeated!">>),
                              combat_won |-> FALSE, player_dead |-> TRUE,
                              enemies |-> left]
                        ELSE [op |-> "attack", events |-> ev4, combat_won |-> FALSE,
                              enemies |-> left, loot |-> <<>>]
           ELSE /\ pick = 1
                /\ session' = [s2 EXCEPT !.combat = None]
                /\ response' = [op |-> "attack", events |-> ev3, combat_won |-> TRUE,
                                enemies |-> left,
                                loot |-> Get(session, "unclaimed_loot", <<>>)]

\* attack_enemy with a counter-attack of the enemy's own attack stat.
attack_enemy_EnemyStat(enemy_id, attack, pick) ==
  LET combat == Get(session, "combat", None)
  IN IF combat = None
     THEN /\ pick = 1
          /\ response' = [op |-> "attack", status |-> 400,
                          detail |-> "No active combat"]
          /\ UNCHANGED session
     ELSE
     LET enemies == combat.enemies
         target_index == TargetIndex(enemies, enemy_id)
     IN IF target_index = 0
        THEN /\ pick = 1
             /\ response' = [op |-> "attack", status |-> 400,
                             detail |-> "Invalid enemy id"]
             /\ UNCHANGED session
        ELSE
        LET dmg == attack
            old == enemies[target_index]
            enemy == [old EXCEPT !.health = Max(0, old.health - dmg)]
            dead == enemy.health <= 0
            credit_reward == Get(enemy, "credit_reward", 0)
            ev1 == << <<"strike", enemy.name, dmg>> >>
            ev2 == IF dead THEN Append(ev1, <<"defeated", enemy.name>>) ELSE ev1
            ev3 == IF dead /\ credit_reward > 0
                   THEN Append(ev2, <<"loot", credit_reward, enemy.name>>) ELSE ev2
            s1 == IF dead /\ credit_reward > 0
                  THEN WithPlayer(session, "credits", credits + credit_reward)
                  ELSE session
            left == IF dead THEN Pop(enemies, target_index)
                    ELSE [enemies EXCEPT ![target_index] = enemy]
            s2 == [s1 EXCEPT !.combat = [enemies |-> left]]
        IN IF left # <<>>
           THEN LET edmg == Max(4, left[1].attack)
                    s3 == WithPlayer(s2, "health", Max(0, s2.player.health - edmg))
                    ev4 == Append(ev3, <<"hits", left[pick].name, edmg>>)
                IN /\ pick \in DOMAIN left
                   /\ session' = s3
                   /\ response' =
                        IF s3.player.health <= 0
                        THEN [op |-> "attack", events |-> Append(ev4, <<"You were defeated!">>),
                              combat_won |-> FALSE, player_dead |-> TRUE,
                              enemies |-> left]
                        ELSE [op |-> "attack", events |-> ev4, combat_won |-> FALSE,
                              enemies |-> left, loot |-> <<>>]
           ELSE /\ pick = 1
                /\ session' = [s2 EXCEPT !.combat = None]
                /\ response' = [op |-> "attack", events |-> ev3, combat_won |-> TRUE,
                                enemies |-> left,
                                loot |-> Get(session, "unclaimed_loot", <<>>)]

\* attack_enemy without session["combat"] = None at the victory.
attack_enemy_NoVictoryClear(enemy_id, attack, pick) ==
  LET combat == Get(session, "combat", None)
  IN IF combat = None
     THEN /\ pick = 1
          /\ response' = [op |-> "attack", status |-> 400,
                          detail |-> "No active combat"]
          /\ UNCHANGED session
     ELSE
     LET enemies == combat.enemies
         target_index == TargetIndex(enemies, enemy_id)
     IN IF target_index = 0
        THEN /\ pick = 1
             /\ response' = [op |-> "attack", status |-> 400,
                             detail |-> "Invalid enemy id"]
             /\ UNCHANGED session
        ELSE
        LET dmg == attack
            old == enemies[target_index]
            enemy == [old EXCEPT !.health = Max(0, old.health - dmg)]
            dead == enemy.health <= 0
            credit_reward == Get(enemy, "credit_reward", 0)
            ev1 == << <<"strike", enemy.name, dmg>> >>
            ev2 == IF dead THEN Append(ev1, <<"defeated", enemy.name>>) ELSE ev1
            ev3 == IF dead /\ credit_reward > 0
                   THEN Append(ev2, <<"loot", credit_reward, enemy.name>>) ELSE ev2
            s1 == IF dead /\ credit_reward > 0
                  THEN WithPlayer(session, "credits", credits + credit_reward)
                  ELSE session
            left == IF dead THEN Pop(enemies, target_index)
                    ELSE [enemies EXCEPT ![target_index] = enemy]
            s2 == [s1 EXCEPT !.combat = [enemies |-> left]]
        IN IF left # <<>>
           THEN LET edmg == Max(4, Int040(attack))
                    s3 == WithPlayer(s2, "health", Max(0, s2.player.health - edmg))
                    ev4 == Append(ev3, <<"hits", left[pick].name, edmg>>)
                IN /\ pick \in DOMAIN left
                   /\ session' = s3
                   /\ response' =
                        IF s3.player.health <= 0
                        THEN [op |-> "attack", events |-> Append(ev4, <<"You were defeated!">>),
                              combat_won |-> FALSE, player_dead |-> TRUE,
                              enemies |-> left]
                        ELSE [op |-> "attack", events |-> ev4, combat_won |-> FALSE,
                              enemies |-> left, loot |-> <<>>]
           ELSE /\ pick = 1
                /\ session' = s2
                /\ response' = [op |-> "attack", events |-> ev3, combat_won |-> TRUE,
                                enemies |-> left,
                                loot |-> Get(session, "unclaimed_loot", <<>>)]

\* pick is the position random.choice takes among the enemies left.
attack_enemy(enemy_id, attack, pick) ==
  LET combat == Get(session, "combat", None)
  IN IF combat = None
     THEN /\ pick = 1
          /\ response' = [op |-> "attack", status |-> 400,
                          detail |-> "No active combat"]
          /\ UNCHANGED session
     ELSE
     LET enemies == combat.enemies
         target_index == TargetIndex(enemies, enemy_id)
     IN IF target_index = 0
        THEN /\ pick = 1
             /\ response' = [op |-> "attack", status |-> 400,
                             detail |-> "Invalid enemy id"]
             /\ UNCHANGED session
        ELSE
        LET dmg == attack
            old == enemies[target_index]
            enemy == [old EXCEPT !.health = Max(0, old.health - dmg)]
            dead == enemy.health <= 0
            credit_reward == Get(enemy, "credit_reward", 0)
            ev1 == << <<"strike", enemy.name, dmg>> >>
            ev2 == IF dead THEN Append(ev1, <<"defeated", enemy.name>>) ELSE ev1
            ev3 == IF dead /\ credit_reward > 0
                   THEN Append(ev2, <<"loot", credit_reward, enemy.name>>) ELSE ev2
            s1 == IF dead /\ credit_reward > 0
                  THEN WithPlayer(session, "credits", credits + credit_reward)
                  ELSE session
            left == IF dead THEN Pop(enemies, target_index)
                    ELSE [enemies EXCEPT ![target_index] = enemy]
            s2 == [s1 EXCEPT !.combat = [enemies |-> left]]
        IN IF left # <<>>
           THEN LET edmg == Max(4, Int040(attack))
                    s3 == WithPlayer(s2, "health", Max(0, s2.player.health - edmg))
                    ev4 == Append(ev3, <<"hits", left[pick].name, edmg>>)
                IN /\ pick \in DOMAIN left
                   /\ session' = s3
                   /\ response' =
                        IF s3.player.health <= 0
                        THEN [op |-> "attack", events |-> Append(ev4, <<"You were defeated!">>),
                              combat_won |-> FALSE, player_dead |-> TRUE,
                              enemies |-> left]
                        ELSE [op |-> "attack", events |-> ev4, combat_won |-> FALSE,
                              enemies |-> left, loot |-> <<>>]
           ELSE /\ pick = 1
                /\ session' = [s2 EXCEPT !.combat = None]
                /\ response' = [op |-> "attack", events |-> ev3, combat_won |-> TRUE,
                                enemies |-> left,
                                loot |-> Get(session, "unclaimed_loot", <<>>)]

\* ------------------------------------------- attack_enemy as a coroutine
\* The positions of attack_enemy at which the coroutine awaits, and so hands
\* the event loop to another request: its body holds no await.
AwaitPoints_AfterLookup == {"found"}

AwaitPoints == {}

\* The list the local "enemies" refers to: the roster while the combat is
\* present, and the emptied list once a victory has set the combat to None.
FrameEnemies(s) == IF Get(s, "combat", None) = None THEN <<>> ELSE s.combat.enemies

\* From the entry to the target lookup: the frame afterwards.
AttackLookup(s, f) ==
  LET combat == Get(s, "combat", None)
  IN IF combat = None
     THEN [f EXCEPT !.pc = "done", !.status = 400]
     ELSE LET target_index == TargetIndex(combat.enemies, f.enemy_id)
          IN IF target_index = 0
             THEN [f EXCEPT !.pc = "done", !.status = 400]
             ELSE [f EXCEPT !.pc = "found", !.target_index = target_index]

\* The strike, the reward and the pop, on the enemy at target_index now;
\* enemies[target_index] raises IndexError when the list got shorter.
AttackStrike(s, f) ==
  LET enemies == FrameEnemies(s)
  IN IF f.target_index > Len(enemies)
     THEN [session |-> s, frame |-> [f EXCEPT !.pc = "done", !.status = 500]]
     ELSE LET old == enemies[f.target_index]
              enemy == [old EXCEPT !.health = Max(0, old.health - f.attack)]
              dead == enemy.health <= 0
              credit_reward == Get(enemy, "credit_reward", 0)
              s1 == IF dead /\ credit_reward > 0
                    THEN WithPlayer(s, "credits", s.player.credits + credit_reward)
                    ELSE s
              left == IF dead THEN Pop(enemies, f.target_index)
                      ELSE [enemies EXCEPT ![f.target_index] = enemy]
          IN [session |-> [s1 EXCEPT !.combat = [enemies |-> left]],
              frame |-> [f EXCEPT !.pc = "struck",
                                  !.popped = IF dead THEN enemy ELSE None,
                                  !.rewarded = IF dead /\ credit_reward > 0
                                               THEN credit_reward ELSE 0]]

\* The enemy turn or the victory, and the answer.
AttackTurn(s, f) ==
  LET enemies == FrameEnemies(s)
  IN IF enemies # <<>>
     THEN LET edmg == Max(4, Int040(f.attack))
          IN [session |-> WithPlayer(s, "health", Max(0, s.player.health - edmg)),
              frame |-> [f EXCEPT !.pc = "done", !.status = 200]]
     ELSE [session |-> [s EXCEPT !.combat = None],
           frame |-> [f EXCEPT !.pc = "done", !.status = 200]]

\* The answer of a request whose coroutine ended.
Answer(r, f, s) ==
  [op |-> "attack", request |-> r, status |-> f.status,
   combat_won |-> (f.status = 200 /\ s.combat = None),
   player_dead |-> (f.status = 200 /\ s.combat # None /\ s.player.health <= 0)]

\* The event loop accepts request r: attack_enemy(enemy_id, attack).
Receive(r, enemy_id, attack) ==
  /\ inflight.frames[r].pc = "none"
  /\ inflight' = [inflight EXCEPT !.frames[r] =
                    [NoFrame EXCEPT !.pc = "start", !.enemy_id = enemy_id,
                                    !.attack = attack]]
  /\ UNCHANGED <<session, response>>

\* The event loop runs the coroutine of request r from its position to the
\* next: only when no other coroutine holds the loop, which a coroutine
\* gives up at an await and at its end.
Resume(r) ==
  LET f == inflight.frames[r]
      out == CASE f.pc = "start" -> [session |-> session,
                                     frame |-> AttackLookup(session, f)]
               [] f.pc = "found" -> AttackStrike(session, f)
               [] f.pc = "struck" -> AttackTurn(session, f)
  IN /\ f.pc \in {"start", "found", "struck"}
     /\ inflight.running \in {0, r}
     /\ session' = out.session
     /\ inflight' = [inflight EXCEPT
                       !.frames[r] = out.frame,
                       !.running = IF out.frame.pc \in AwaitPoints \cup {"done"}
                                   THEN 0 ELSE r]
     /\ response' = IF out.frame.pc = "done"
                    THEN Answer(r, out.frame, out.session) ELSE response

\* --------------------------------------------------------------- claim_loot
\* The loop of claim_loot over the manifest from entry k on.
RECURSIVE ClaimEntries(_, _, _)
ClaimEntries(p, loot, k) ==
  IF k > Len(loot) THEN p
  ELSE LET item == loot[k]
           name == item.name
           qty == Get(item, "qty", Get(item, "count", 1))
           p2 == IF name = "Credits"
                 THEN Put(p, "credits", p.credits + qty)
                 ELSE IF name \in {"Scrap", "Iron Scrap"}
                 THEN Put(p, "inventory", add_stacked_item(p.inventory, name, qty))
                 ELSE Put(p, "inventory",
                          Append(p.inventory, [name |-> name, qty |-> qty]))
       IN ClaimEntries(p2, loot, k + 1)

\* claim_loot without session["unclaimed_loot"] = [].
claim_loot_KeepsManifest ==
  LET loot == Get(session, "unclaimed_loot", <<>>)
  IN /\ session' = [session EXCEPT !.player = ClaimEntries(session.player, loot, 1)]
     /\ response' = [op |-> "claim_loot", claimed |-> loot]

claim_loot ==
  LET loot == Get(session, "unclaimed_loot", <<>>)
  IN /\ session' = [session EXCEPT !.player = ClaimEntries(player, loot, 1),
                                   !.unclaimed_loot = <<>>]
     /\ response' = [op |-> "claim_loot", claimed |-> loot]

\* ---------------------------------------------------------- unlock_location
unlock_location(location_id) ==
  IF location_id \notin DOMAIN unlock_costs
  THEN /\ response' = [op |-> "unlock", success |-> FALSE,
                       message |-> "Unknown locked location."]
       /\ UNCHANGED session
  ELSE LET cost == unlock_costs[location_id]
           s1 == WithPlayer(session, "credits", credits - cost)
       IN IF credits < cost
          THEN /\ response' = [op |-> "unlock", success |-> FALSE,
                               message |-> "Not enough credits."]
               /\ UNCHANGED session
          ELSE /\ session' = WithPlayer(s1, "unlocked_locations",
                                 Append(Get(player, "unlocked_locations", <<>>),
                                        location_id))
               /\ response' = [op |-> "unlock", success |-> TRUE,
                               message |-> "Unlocked"]

\* ------------------------------------------------------------ specification
\* Sequences over S of length 1 or 2 (one or two random draws).
OneOrTwo(S) == {<<a>> : a \in S} \cup {<<a, b>> : a \in S, b \in S}

Units(inv) == SumSeq([i \in DOMAIN inv |-> ItemQty(inv[i])])

\* The sessions explored: a step that leads outside is not taken.
Bounded ==
  /\ credits <= MaxCredits
  /\ Units(inventory) <= MaxUnits
  /\ Len(Get(player, "unlocked_locations", <<>>)) <= MaxUnlocked

\* What the client and the random source supply in the runs of Spec: the
\* economy, with searches that find "Scrap" and encounters of one raider
\* that one strike defeats.
DepositArgs == {<<>>, <<"Scrap">>, <<"Iron Scrap">>, <<"Medpack">>}
BuyNames == {"Medpack", "Scrap"}
ScrapDraws == {1}
CreditGains == {5, 25}
LootCredits == {20}
LootScrap == {1}
LootIron == {0, 2}
LocationIds == {"delta_base", "moon"}
StrikeIds == {0, 1}
Strikes == {60}

Next ==
  \/ \E a \in DepositArgs : deposit_scrap(a) /\ Bounded' /\ UNCHANGED inflight
  \/ \E n \in BuyNames : shop_buy(n) /\ Bounded' /\ UNCHANGED inflight
  \/ \E d \in OneOrTwo(ScrapDraws), g \in CreditGains : search(d, g) /\ Bounded' /\ UNCHANGED inflight
  \/ \E c \in LootCredits, sc \in LootScrap, ir \in LootIron :
        start_adventure(<<1>>, c, sc, ir) /\ Bounded' /\ UNCHANGED inflight
  \/ \E e \in StrikeIds, a \in Strikes : attack_enemy(e, a, 1) /\ Bounded' /\ UNCHANGED inflight
  \/ claim_loot /\ Bounded' /\ UNCHANGED inflight
  \/ \E l \in LocationIds : unlock_location(l) /\ Bounded' /\ UNCHANGED inflight

Spec == Init /\ [][Next]_vars

\* SpecInv: the inventory up to and beyond MAX_INVENTORY_SLOTS, with searches
\* that find "Scrap" and "Medpack" and the cheapest item of the shop.
SearchDraws == {1, 5}

BoundedInv ==
  /\ credits <= MaxPurse
  /\ Len(inventory) <= MaxStacks
  /\ \A i \in DOMAIN inventory : ItemQty(inventory[i]) <= MaxQty

NextInv ==
  \/ \E d \in OneOrTwo(SearchDraws), g \in CreditGains : search(d, g) /\ BoundedInv' /\ UNCHANGED inflight
  \/ \E n \in {"Charge Cell", "Scrap"} : shop_buy(n) /\ BoundedInv' /\ UNCHANGED inflight
  \/ \E a \in DepositArgs : deposit_scrap(a) /\ BoundedInv' /\ UNCHANGED inflight
  \/ get_game_state /\ BoundedInv' /\ UNCHANGED inflight

SpecInv == Init /\ [][NextInv]_vars

\* SpecCombat: encounters of one or two raiders of level 1 or 2.
EnemyIds == {0, 1, 2}
AttackPowers == {38, 250}
Levels == {1, 2}

NextCombat ==
  \/ \E l \in OneOrTwo(Levels), c \in LootCredits, sc \in LootScrap, ir \in LootIron :
        start_adventure(l, c, sc, ir) /\ Bounded' /\ UNCHANGED inflight
  \/ \E e \in EnemyIds, a \in AttackPowers, k \in 1..2 :
        attack_enemy(e, a, k) /\ Bounded' /\ UNCHANGED inflight
  \/ claim_loot /\ Bounded' /\ UNCHANGED inflight
  \/ heal_player /\ Bounded' /\ UNCHANGED inflight

SpecCombat == Init /\ [][NextCombat]_vars

\* SpecAttack: the attack_power is any integer of the client's choice, here
\* a negative one, zero, and ones that do and do not defeat at one strike,
\* against one or two raiders of level 1.
AnyPowers == {-12, 0, 24, 250}
AttackLevels == {1}

BoundedAttack ==
  /\ Bounded
  /\ \/ player.health <= MaxWounds
     \/ player.health >= player.max_health - MaxWounds
  /\ session.combat # None =>
        \A i \in DOMAIN session.combat.enemies :
          session.combat.enemies[i].health <= MaxEnemyHealth

NextAttack ==
  \/ \E l \in OneOrTwo(AttackLevels), c \in LootCredits, sc \in LootScrap,
        ir \in LootIron :
        start_adventure(l, c, sc, ir) /\ BoundedAttack' /\ UNCHANGED inflight
  \/ \E e \in EnemyIds, a \in AnyPowers, k \in 1..2 :
        attack_enemy(e, a, k) /\ BoundedAttack' /\ UNCHANGED inflight
  \/ heal_player /\ BoundedAttack' /\ UNCHANGED inflight

SpecAttack == Init /\ [][NextAttack]_vars

\* SpecConc: two attack requests at a time on one encounter, their
\* coroutines scheduled by the event loop; a new encounter starts when none
\* is in flight.
Quiet == \A r \in Reqs : inflight.frames[r].pc \in {"none", "done"}

NextConc ==
  \/ \E l \in OneOrTwo(Levels), c \in LootCredits, sc \in LootScrap, ir \in LootIron :
        /\ Quiet
        /\ start_adventure(l, c, sc, ir)
        /\ inflight' = [Idle EXCEPT !.session0 = session']
        /\ Bounded'
  \/ \E r \in Reqs, e \in StrikeIds, a \in AttackPowers : Receive(r, e, a)
  \/ \E r \in Reqs : Resume(r) /\ Bounded'

SpecConc == Init /\ [][NextConc]_vars

\* SpecPlasma: the Plasma Blaster, bought with the credits of searches and
\* of claimed loot, and worn by encounters.
PlasmaBuys == {"Plasma Blaster", "Nano Repair Kit"}
PlasmaDraws == {2}
PlasmaGains == {25}
PlasmaLoot == {60}
PlasmaDeposits == {<<"Iron Scrap">>}

BoundedPlasma ==
  /\ credits <= MaxFunds
  /\ Units(inventory) <= MaxCargo
  /\ Len(Get(session, "messages", <<>>)) <= MaxMessages

NextPlasma ==
  \/ \E d \in PlasmaDraws, g \in PlasmaGains :
        search(<<d>>, g) /\ BoundedPlasma' /\ UNCHANGED inflight
  \/ \E n \in PlasmaBuys : shop_buy(n) /\ BoundedPlasma' /\ UNCHANGED inflight
  \/ \E c \in PlasmaLoot, sc \in LootScrap :
        start_adventure(<<1>>, c, sc, 0) /\ BoundedPlasma' /\ UNCHANGED inflight
  \/ claim_loot /\ BoundedPlasma' /\ UNCHANGED inflight
  \/ \E a \in PlasmaDeposits :
        deposit_scrap(a) /\ BoundedPlasma' /\ UNCHANGED inflight

SpecPlasma == Init /\ [][NextPlasma]_vars

\* SpecLive: one encounter at a time, of raiders of level 1, and a client
\* that keeps attacking: an attack of a power of 1 or more on the id of a live
\* enemy is taken whenever it stays possible (weak fairness); attacks on
\* other ids come in between.  An encounter starts when no combat is present
\* and the rewards of its roster fit under MaxCredits.  The client strikes
\* with the power 1 when one raider is left, and with 250 at any time.
LivePowers == {1, 250}

AttackLive ==
  \E e \in EnemyIds, a \in LivePowers, k \in 1..2 :
    /\ session.combat # None
    /\ TargetIndex(session.combat.enemies, e) # 0
    /\ a < 250 => Len(session.combat.enemies) = 1
    /\ attack_enemy(e, a, k)
    /\ UNCHANGED inflight

Stake(s) ==
  s.player.credits
    + (IF s.combat = None THEN 0
       ELSE SumSeq([i \in DOMAIN s.combat.enemies |->
                      s.combat.enemies[i].credit_reward]))

NextLive ==
  \/ \E l \in OneOrTwo(AttackLevels), c \in LootCredits, sc \in LootScrap :
        /\ session.combat = None
        /\ start_adventure(l, c, sc, 0)
        /\ Stake(session') <= MaxCredits
        /\ UNCHANGED inflight
  \/ AttackLive
  \/ \E e \in EnemyIds, a \in LivePowers :
        /\ session.combat # None
        /\ TargetIndex(session.combat.enemies, e) = 0
        /\ attack_enemy(e, a, 1)
        /\ UNCHANGED inflight

SpecLive == Init /\ [][NextLive]_vars /\ WF_vars(AttackLive)

\* SpecStack: add_stacked_item on its own, called with one item name on an
\* inventory that starts without a stack of that name, with quantities that
\* cross SCRAP_STACK_SIZE, and then one deposit of the result.
StackNames == {"Scrap", "Iron Scrap"}
StackQtys == {1, 63, 65, 130}
StartInventories ==
  { <<>>,
    << [name |-> "Medpack", qty |-> 1] >>,
    << [name |-> "Energy Cell", qty |-> 64, count |-> 64],
       [name |-> "Energy Cell", qty |-> 10, count |-> 10],
       [name |-> "Medpack", qty |-> 1] >> }

\* The stacks of the names of StackNames in inv are all of name n.
OnlyName(inv, n) ==
  \A i \in DOMAIN inv : inv[i].name \in StackNames => inv[i].name = n

InitStack ==
  /\ \E inv \in StartInventories :
        session = WithPlayer(start_game, "inventory", inv)
  /\ response = [op |-> "start"]
  /\ inflight = Idle

\* One call add_stacked_item(player["inventory"], name, qty).
add_stacked_call(name, qty) ==
  /\ session' = WithPlayer(session, "inventory",
                           add_stacked_item(inventory, name, qty))
  /\ response' = [op |-> "add_stacked_item", name |-> name, qty |-> qty]

NextStack ==
  \/ \E n \in StackNames, q \in StackQtys :
        /\ credits = 0
        /\ OnlyName(inventory, n)
        /\ add_stacked_call(n, q)
        /\ TotalOf(inventory', n) <= MaxTotal
        /\ UNCHANGED inflight
  \/ \E a \in DepositArgs : credits = 0 /\ deposit_scrap(a) /\ UNCHANGED inflight

SpecStack == InitStack /\ [][NextStack]_vars

\* ================================================================== claims
\* The stacks of inv named name, and the others, each in inventory order.
StacksOf(inv, name) == SelectSeq(inv, LAMBDA i : i.name = name)
OtherStacks(inv, name) == SelectSeq(inv, LAMBDA i : i.name # name)
\* The units in the stacks of inv named name, by their qty field.
QtyOf(inv, name) ==
  LET st == StacksOf(inv, name) IN SumSeq([i \in DOMAIN st |-> st[i].qty])

\* C1: every add_stacked_item call with one item name and qty > 0, on an
\* inventory that started without a stack of that name, adds exactly qty
\* units to the stacks of that name (so their sum is the sum of the qty
\* arguments), leaves no stack of that name above 64 and leaves the stacks
\* of every other name as they were.
C1_Stacking ==
  [][\A n \in StackNames, q \in StackQtys :
       (response'.op = "add_stacked_item" /\ add_stacked_call(n, q)) =>
         /\ QtyOf(inventory', n) = QtyOf(inventory, n) + q
         /\ \A i \in DOMAIN inventory' :
              inventory'[i].name = n => inventory'[i].qty \in 1..64
         /\ OtherStacks(inventory', n) = OtherStacks(inventory, n)]_vars

\* Calls have filled two stacks of one name and opened a third, beside
\* stacks of other names.
C1_Witness ==
  /\ response.op = "add_stacked_item"
  /\ Len(StacksOf(inventory, response.name)) >= 3
  /\ QtyOf(inventory, response.name) % 64 # 0
  /\ OtherStacks(inventory, response.name) # <<>>

\* The amount the manifest loot holds under name.
LootAmount(loot, name) ==
  LET st == SelectSeq(loot, LAMBDA i : i.name = name)
  IN SumSeq([i \in DOMAIN st |-> st[i].count])

\* C2: the attack that defeats the last enemy of the roster, and no other
\* attack, makes the session's combat None, and hands the manifest of
\* start_adventure on untouched; a claim_loot then transfers the whole
\* manifest (its credits, Scrap and Iron Scrap) and empties it, so that a
\* later claim_loot transfers nothing; only start_adventure refills it.
C2_VictoryThenClaimOnce ==
  [][/\ \A e \in EnemyIds, a \in AttackPowers, k \in 1..2 :
          (response'.op = "attack" /\ session.combat # None
             /\ attack_enemy(e, a, k)) =>
            LET enemies == session.combat.enemies
                last == /\ Len(enemies) = 1
                        /\ enemies[1].id = e
                        /\ enemies[1].health <= a
            IN IF last
               THEN /\ session'.combat = None
                    /\ response'.combat_won
                    /\ response'.loot = session.unclaimed_loot
                    /\ session'.unclaimed_loot = session.unclaimed_loot
               ELSE session'.combat # None
     /\ (response'.op = "claim_loot" /\ claim_loot) =>
          LET loot == session.unclaimed_loot
          IN /\ response'.claimed = loot
             /\ session'.unclaimed_loot = <<>>
             /\ credits' = credits + LootAmount(loot, "Credits")
             /\ QtyOf(inventory', "Scrap") =
                  QtyOf(inventory, "Scrap") + LootAmount(loot, "Scrap")
             /\ QtyOf(inventory', "Iron Scrap") =
                  QtyOf(inventory, "Iron Scrap") + LootAmount(loot, "Iron Scrap")
     /\ (session.unclaimed_loot = <<>> /\ session'.unclaimed_loot # <<>>) =>
          response'.op = "adventure"]_vars

\* The manifest was claimed after a won fight in which the player was hit.
C2_Witness ==
  /\ response.op = "claim_loot"
  /\ response.claimed # <<>>
  /\ session.combat = None
  /\ player.health \in 1..99

\* C3: the player's credits are an integer >= 0 in every reachable state.
C3_CreditsNonNegative == credits \in Nat

\* A purchase has spent the whole balance.
C3_Witness ==
  /\ response.op = "shop_buy"
  /\ response.ok
  /\ credits = 0

\* C4: the inventory never holds more than MAX_INVENTORY_SLOTS (6) stacks.
C4_InventoryWithinSlots == Len(inventory) <= 6

\* C5: for each name the stack manager adds, at most one stack of that name
\* is below 64, and every stack holds between 1 and 64 units.
C5_OnePartialStack ==
  /\ \A n \in {"Scrap", "Iron Scrap", "Energy Cell", "Nano Repair Kit", "Medpack"} :
        Cardinality({i \in DOMAIN inventory :
                       inventory[i].name = n /\ inventory[i].qty < 64}) <= 1
  /\ \A i \in DOMAIN inventory : inventory[i].qty \in 1..64

\* C6: a purchase of an unknown item or with credits < cost, an unlock of an
\* unknown location or with credits < cost, and an attack with no combat or
\* with an id no live enemy has, each report the failure and leave the whole
\* session as it was.
C6_FailureLeavesSession ==
  [][/\ \A n \in BuyNames :
          (response'.op = "shop_buy" /\ shop_buy(n)
             /\ (n \notin DOMAIN PRICES \/ credits < PRICES[n])) =>
            (~response'.ok /\ session' = session)
     /\ \A l \in LocationIds :
          (response'.op = "unlock" /\ unlock_location(l)
             /\ (l \notin DOMAIN unlock_costs \/ credits < unlock_costs[l])) =>
            (~response'.success /\ session' = session)
     /\ \A e \in StrikeIds, a \in Strikes :
          (response'.op = "attack" /\ attack_enemy(e, a, 1)
             /\ (\/ session.combat = None
                 \/ \A i \in DOMAIN session.combat.enemies :
                      session.combat.enemies[i].id # e)) =>
            (response'.status = 400 /\ session' = session)]_vars

\* A purchase was refused for lack of credits in a session that holds
\* credits and items.
C6_Witness ==
  /\ response.op = "shop_buy"
  /\ ~response.ok
  /\ response.msg = <<"Not enough credits.">>
  /\ credits > 0
  /\ inventory # <<>>

\* C7: a deposit of "Scrap" or "Iron Scrap" whose stacks total N units adds
\* 2N resp. 5N credits, removes every stack of that name and keeps the other
\* stacks in place and in order; a deposit of another name, or without an
\* argument, reports the failure and changes nothing.
C7_Deposit ==
  [][\A a \in DepositArgs :
       (response'.op = "command" /\ deposit_scrap(a)) =>
         IF a # <<>> /\ a[1] \in {"Scrap", "Iron Scrap"}
         THEN /\ credits' = credits
                   + (IF a[1] = "Scrap" THEN 2 ELSE 5) * QtyOf(inventory, a[1])
              /\ inventory' = OtherStacks(inventory, a[1])
              /\ response'.ok
         ELSE /\ session' = session
              /\ ~response'.ok]_vars

\* A deposit has removed more than one stack and left other stacks.
C7_Witness ==
  /\ response.op = "command"
  /\ response.ok
  /\ response.msg[2] > 64
  /\ credits > 0
  /\ inventory # <<>>

\* C8: every claim_loot leaves the manifest empty; one that follows another
\* claim_loot directly returns an empty claimed list and leaves the player as
\* it was, while one that finds a manifest returns its entries and adds to
\* the player's credits and inventory.
C8_SecondClaimEmpty ==
  [][(response'.op = "claim_loot" /\ claim_loot) =>
       /\ session'.unclaimed_loot = <<>>
       /\ response.op = "claim_loot" =>
            (response'.claimed = <<>> /\ session'.player = session.player)
       /\ session.unclaimed_loot # <<>> =>
            /\ response.op # "claim_loot"
            /\ response'.claimed = session.unclaimed_loot
            /\ credits' > credits
            /\ inventory' # inventory]_vars

\* A claim_loot returned nothing in a session that an earlier claim_loot
\* had paid.
C8_Witness ==
  /\ response.op = "claim_loot"
  /\ response.claimed = <<>>
  /\ QtyOf(inventory, "Scrap") > 0
  /\ session.unclaimed_loot = <<>>

\* C9 as stated: a search on a full inventory adds no item and still raises
\* the credits by an amount in [5,25].
C9_FullSearchGrantsBonus ==
  [][\A d \in OneOrTwo(SearchDraws), g \in CreditGains :
       (response'.op = "search" /\ Len(inventory) >= 6 /\ search(d, g)) =>
         (inventory' = inventory /\ (credits' - credits) \in 5..25)]_vars

\* C9 as amended: a search on a full inventory adds no item and grants no
\* credit bonus (credits unchanged, credits_gained 0); every other search
\* raises the credits by its bonus, an amount in [5,25].
C9_FullSearchNoBonus ==
  [][\A d \in OneOrTwo(SearchDraws), g \in CreditGains :
       (response'.op = "search" /\ search(d, g)) =>
         IF Len(inventory) >= 6
         THEN /\ inventory' = inventory
              /\ credits' = credits
              /\ response'.credits_gained = 0
         ELSE /\ credits' = credits + g
              /\ response'.credits_gained = g
              /\ g \in 5..25]_vars

\* A search found the inventory full, exactly at its six slots.
C9_Witness ==
  /\ response.op = "search"
  /\ ~response.ok
  /\ response.credits_gained = 0
  /\ Len(inventory) = 6

\* C10: a search on an inventory of 6 or more stacks returns an empty item
\* list and leaves every field of the session as it was.
C10_FullSearchNoMutation ==
  [][\A d \in OneOrTwo(SearchDraws), g \in CreditGains :
       (response'.op = "search" /\ Len(inventory) >= 6 /\ search(d, g)) =>
         (response'.items = <<>> /\ session' = session)]_vars

\* A search found the inventory full in a session that holds credits.
C10_Witness ==
  /\ response.op = "search"
  /\ response.items = <<>>
  /\ Len(inventory) >= 6
  /\ credits > 0
\* C11: the player's health stays between 0 and max_health, whatever integer
\* the client sends as attack power and however heals and attacks alternate.
C11_HealthInRange ==
  /\ player.health \in Int
  /\ 0 <= player.health
  /\ player.health <= player.max_health

\* A heal was capped at max_health after a strike of negative power had
\* cost the player health.
C11_Witness ==
  /\ response.op = "heal"
  /\ player.health = player.max_health
  /\ session.combat # None
  /\ \E i \in DOMAIN session.combat.enemies :
        session.combat.enemies[i].health > session.combat.enemies[i].max_health
\* C12: a manifest stored as unclaimed stays on the session, entry for entry,
\* through every operation but claim_loot: no search, purchase, deposit,
\* unlock, attack or start_adventure removes or replaces it.
C12_ManifestKeptUntilClaimed ==
  [][(session.unclaimed_loot # <<>> /\ response'.op # "claim_loot") =>
       session'.unclaimed_loot = session.unclaimed_loot]_vars
\* The session after attack request r has run alone, from entry to answer, on
\* session s.
RunAlone(s, r) ==
  LET f1 == AttackLookup(s, [inflight.frames[r] EXCEPT
                               !.pc = "start", !.target_index = 0,
                               !.popped = None, !.rewarded = 0, !.status = 0])
      o2 == AttackStrike(s, f1)
  IN IF f1.pc = "done" THEN s
     ELSE IF o2.frame.pc = "done" THEN o2.session
     ELSE AttackTurn(o2.session, o2.frame).session

\* C13: of two attack requests in flight on the same session and the same
\* enemy id, at most one removes an enemy and at most one credits a reward,
\* the enemy removed is the one named, and once both have answered the
\* session is the one that one of the two serial orders gives.
C13_ConcurrentAttacksSerial ==
  LET f == inflight.frames
  IN (f[1].pc # "none" /\ f[2].pc # "none" /\ f[1].enemy_id = f[2].enemy_id) =>
       /\ ~(f[1].popped # None /\ f[2].popped # None)
       /\ ~(f[1].rewarded > 0 /\ f[2].rewarded > 0)
       /\ \A r \in Reqs : f[r].popped # None => f[r].popped.id = f[r].enemy_id
       /\ (f[1].pc = "done" /\ f[2].pc = "done") =>
            session \in {RunAlone(RunAlone(inflight.session0, 1), 2),
                         RunAlone(RunAlone(inflight.session0, 2), 1)}

\* Two requests named the same enemy of a roster of two, both with a power
\* that defeats it: one removed it and was paid, the other got the 400 of an
\* invalid enemy id.
C13_Witness ==
  LET f == inflight.frames
  IN /\ f[1].pc = "done" /\ f[2].pc = "done"
     /\ f[1].enemy_id = f[2].enemy_id
     /\ \E r \in Reqs : f[r].popped # None /\ f[r].rewarded > 0
     /\ \E r \in Reqs : f[r].status = 400
     /\ session.combat # None
\* C14: a claim_loot transfers the entries of the manifest only when the
\* encounter that generated it has ended in victory, that is with the
\* session's combat None; while the combat is present nothing is claimable.
C14_ClaimOnlyAfterVictory ==
  (response.op = "claim_loot" /\ response.claimed # <<>>) => session.combat = None
\* The message log of session s.
MessagesOf(s) == Get(s, "messages", <<>>)

\* C15: start_adventure with a Plasma Blaster in the inventory either warns
\* or wears the weapon, never both: at plasma_durability 1 it appends one
\* message and leaves durability and inventory alone; at a higher durability
\* it decrements it, and removes the weapon with a break message exactly when
\* the decrement reaches 0.
C15_WarnOrWear ==
  [][(response'.op = "adventure" /\ HasPlasmaBlaster(inventory)) =>
       LET d == player.plasma_durability
           d2 == session'.player.plasma_durability
       IN IF d = 1
          THEN /\ Len(MessagesOf(session')) = Len(MessagesOf(session)) + 1
               /\ d2 = d
               /\ inventory' = inventory
          ELSE IF d > 0
          THEN /\ d2 = d - 1
               /\ IF d2 = 0
                  THEN /\ inventory' = Without(inventory, "Plasma Blaster")
                       /\ Len(MessagesOf(session')) = Len(MessagesOf(session)) + 1
                  ELSE /\ inventory' = inventory
                       /\ MessagesOf(session') = MessagesOf(session)
          ELSE /\ d2 = d
               /\ inventory' = inventory
               /\ MessagesOf(session') = MessagesOf(session)]_vars

\* C20: plasma_durability is never negative, and the inventory holds a
\* "Plasma Blaster" stack exactly when plasma_durability is above 0.
C20_BlasterIffCharged ==
  /\ player.plasma_durability \in Nat
  /\ HasPlasmaBlaster(inventory) <=> player.plasma_durability > 0

\* An encounter has worn the charge that a second purchase had renewed: two
\* Plasma Blaster stacks share the one charge left.
C20_Witness ==
  /\ response.op = "adventure"
  /\ Len(StacksOf(inventory, "Plasma Blaster")) = 2
  /\ player.plasma_durability = 1
\* The roster after a strike of power a on the enemy of id e: its health
\* lowered, and the enemy left out when none is left.
AfterStrike(enemies, e, a) ==
  SelectSeq([i \in DOMAIN enemies |->
               IF enemies[i].id = e
               THEN [enemies[i] EXCEPT !.health = Max(0, @ - a)] ELSE enemies[i]],
            LAMBDA x : x.health > 0)

\* C16: an attack whose counter-attack brings the player's health to 0
\* reports player_dead, leaves the combat present with the enemies as they
\* were after the strike and leaves the manifest alone; and an attack on a
\* live enemy id is accepted when the player's health is 0.
C16_DefeatKeepsCombat ==
  [][\A e \in EnemyIds, a \in AttackPowers, k \in 1..2 :
       (response'.op = "attack" /\ session.combat # None
          /\ attack_enemy(e, a, k)) =>
         /\ ("player_dead" \in DOMAIN response') =>
              /\ response'.player_dead
              /\ session'.player.health = 0
              /\ session'.combat # None
              /\ session'.combat.enemies = AfterStrike(session.combat.enemies, e, a)
              /\ response'.enemies = session'.combat.enemies
              /\ session'.unclaimed_loot = session.unclaimed_loot
         /\ (TargetIndex(session.combat.enemies, e) # 0
               /\ session'.player.health = 0 /\ session'.combat # None) =>
              "player_dead" \in DOMAIN response'
         /\ (player.health = 0 /\ TargetIndex(session.combat.enemies, e) # 0) =>
              "status" \notin DOMAIN response']_vars

\* The player was defeated by the raider left of two, and a following attack
\* on that raider was accepted and won the fight.
C16_Witness ==
  /\ response.op = "attack"
  /\ "combat_won" \in DOMAIN response
  /\ response.combat_won
  /\ player.health = 0
\* C17: an accepted attack of power a leaves the roster as the strike makes
\* it (the target at max(0, health - a), removed at 0); the player's health
\* becomes max(0, health - max(4, floor(0.40 * a))) when an enemy is left
\* after the strike, whatever the enemies' attack stats, and is unchanged
\* when the strike removed the last enemy.
C17_StrikeAndCounter ==
  [][\A e \in EnemyIds, a \in AnyPowers, k \in 1..2 :
       (response'.op = "attack" /\ session.combat # None
          /\ TargetIndex(session.combat.enemies, e) # 0
          /\ attack_enemy(e, a, k)) =>
         LET after == AfterStrike(session.combat.enemies, e, a)
         IN /\ response'.enemies = after
            /\ IF after # <<>>
               THEN /\ session'.combat.enemies = after
                    /\ session'.player.health =
                         Max(0, player.health - Max(4, (2 * a) \div 5))
               ELSE /\ session'.combat = None
                    /\ session'.player.health = player.health]_vars

\* A strike of power 24 left its target alive and cost the player 9 health.
C17_Witness ==
  /\ response.op = "attack"
  /\ player.health = 91
  /\ session.combat # None
  /\ \E i \in DOMAIN session.combat.enemies : session.combat.enemies[i].health = 26
\* The ids of the enemies of a roster.
IdsOf(enemies) == {enemies[i].id : i \in DOMAIN enemies}

\* A combat that is present has a roster that is not empty, of enemies of
\* pairwise distinct ids and of health 1 or more.
RosterOk(s) ==
  s.combat # None =>
    LET enemies == s.combat.enemies
    IN /\ enemies # <<>>
       /\ \A i, j \in DOMAIN enemies : enemies[i].id = enemies[j].id => i = j
       /\ \A i \in DOMAIN enemies : enemies[i].health >= 1

\* C19: every step leaves a roster that is not empty, of distinct ids and of
\* live enemies, when the combat is present; an attack that names an id of
\* the roster is accepted, strikes the enemy of that id and leaves the
\* others as they were, under their ids; an attack that names another id, as
\* the id of a removed enemy is, fails as an invalid enemy id.
C19_RosterIds ==
  [][/\ RosterOk(session')
     /\ \A e \in EnemyIds, a \in AttackPowers, k \in 1..2 :
          (response'.op = "attack" /\ session.combat # None
             /\ attack_enemy(e, a, k)) =>
            LET enemies == session.combat.enemies
                left == IF session'.combat = None THEN <<>>
                        ELSE session'.combat.enemies
            IN IF e \in IdsOf(enemies)
               THEN /\ "status" \notin DOMAIN response'
                    /\ \A i \in DOMAIN enemies :
                         IF enemies[i].id # e
                         THEN \E j \in DOMAIN left : left[j] = enemies[i]
                         ELSE IF enemies[i].health > a
                         THEN \E j \in DOMAIN left :
                                left[j] = [enemies[i] EXCEPT !.health = @ - a]
                         ELSE e \notin IdsOf(left)
                    /\ IdsOf(left) \subseteq IdsOf(enemies)
               ELSE /\ response'.status = 400
                    /\ response'.detail = "Invalid enemy id"
                    /\ session' = session]_vars

\* The first of two raiders was removed and an attack that named its id was
\* refused, while the second raider keeps the id 1.
C19_Witness ==
  /\ response.op = "attack"
  /\ "status" \in DOMAIN response
  /\ response.detail = "Invalid enemy id"
  /\ session.combat # None
  /\ IdsOf(session.combat.enemies) = {1}
\* C18: an encounter whose client keeps attacking live enemies with a power
\* of 1 or more, and starts no other encounter meanwhile, comes to an empty
\* roster and to a combat of None after finitely many attacks, also when the
\* player's health has reached 0 on the way.
C18_EncounterEnds == (session.combat # None) ~> (session.combat = None)

\* A fight was won by a player whose health was 0.
C18_Witness ==
  /\ response.op = "attack"
  /\ "combat_won" \in DOMAIN response
  /\ response.combat_won
  /\ session.combat = None
  /\ player.health = 0
====
